---- MODULE Spec2Model ----
(***************************************************************************)
(* A model of rurl (src/src/main.rs): the request-item parser              *)
(* (RequestItem::from_str) and the request assembly done by main.          *)
(*                                                                         *)
(* Text is modelled as a sequence of one-character strings, so that the    *)
(* regular expression of the parser, JSON escaping and percent-encoding    *)
(* are computed character by character.                                    *)
(***************************************************************************)
EXTENDS Integers, Sequences, FiniteSets, TLC

VARIABLES pc, method, uri, mode, args, fs, opened, request_items, req, body,
          built, netCalls, failure

vars == <<pc, method, uri, mode, args, fs, opened, request_items, req, body,
          built, netCalls, failure>>

----------------------------------------------------------------------------
(* Bounds of the model *)

\* longest token of the exhaustive single-token specification
MaxTokenLen == 4
\* longest REQUEST_ITEM list of the run specification
MaxItems == 3

----------------------------------------------------------------------------
(* Characters and text helpers *)

Backslash == "\\"
NL == "\n"
Quote == "\""

\* the characters the exhaustive tokens are made of: a letter, a digit, the
\* escape character, the three operator characters and a line break
Alphabet == {"a", "1", Backslash, "=", ":", "@", NL}

Digits == {"0", "1", "2", "3", "4", "5", "6", "7", "8", "9"}

Min(S) == CHOOSE x \in S : \A y \in S : x <= y

Last(s) == s[Len(s)]

\* s[from..] (empty when from is past the end)
From(s, from) == SubSeq(s, from, Len(s))

----------------------------------------------------------------------------
\* The regular expression of RequestItem::from_str:
\*   (?<name>.+?) (?<!\\) (?<sep>==|:=@?|=@?|:|@) (?<value>.*)

\* `.` : any character but a line break (no multiline option is given)
Dot(c) == c # NL

\* the alternatives of <sep>, in the order the matcher tries them; a greedy
\* `@?` tries the alternative with the @ first
SepAlternatives ==
    << <<"=", "=">>, <<":", "=", "@">>, <<":", "=">>, <<"=", "@">>, <<"=">>,
       <<":">>, <<"@">> >>

\* the literal lit occurs in s at position p
LitAt(s, p, lit) ==
    /\ p + Len(lit) - 1 <= Len(s)
    /\ \A j \in 1..Len(lit) : s[p + j - 1] = lit[j]

\* the first alternative of <sep>, from the n-th on, matching at p, or <<>>
\* when none does
RECURSIVE SepFrom(_, _, _)
SepFrom(s, p, n) ==
    IF n > Len(SepAlternatives) THEN <<>>
    ELSE IF LitAt(s, p, SepAlternatives[n]) THEN SepAlternatives[n]
    ELSE SepFrom(s, p, n + 1)

SepAt(s, p) == SepFrom(s, p, 1)

\* the lazy <name> from start i, now s[i..e]: it ends here when the
\* lookbehind and <sep> match after it, and else takes one more character;
\* 0 when no end lets the rest match
RECURSIVE NameEnd(_, _, _)
NameEnd(s, i, e) ==
    IF e > Len(s) \/ ~Dot(s[e]) THEN 0
    ELSE IF s[e] # Backslash /\ SepAt(s, e + 1) # <<>> THEN e
    ELSE NameEnd(s, i, e + 1)

\* the search: the start positions are tried left to right
RECURSIVE Search(_, _)
Search(s, i) ==
    IF i > Len(s) THEN <<>>
    ELSE IF NameEnd(s, i, i) # 0 THEN <<i, NameEnd(s, i, i)>>
    ELSE Search(s, i + 1)

\* greedy `.*` from position p: the last position of the run of non-breaks
RECURSIVE ValueEnd(_, _)
ValueEnd(s, p) ==
    IF p <= Len(s) /\ Dot(s[p]) THEN ValueEnd(s, p + 1) ELSE p - 1

\* RE.captures(s)
Captures(s) ==
    LET m == Search(s, 1)
    IN  IF m = <<>> THEN [matched |-> FALSE]
        ELSE LET sep == SepAt(s, m[2] + 1)
                 vs == m[2] + 1 + Len(sep)
             IN  [matched |-> TRUE,
                  name |-> SubSeq(s, m[1], m[2]),
                  sep |-> sep,
                  value |-> SubSeq(s, vs, ValueEnd(s, vs))]

----------------------------------------------------------------------------
(* JSON values (json crate): a string or a number, the two kinds of value  *)
(* a text over the model's characters can denote.  A number is kept as its *)
(* digits, which is what dump() prints for an integer below 2^64.          *)

JsonString(chars) == [t |-> "str", v |-> chars]
JsonNumber(digits) == [t |-> "num", v |-> digits]

JsonWhitespace == {" ", "\t", NL, "\r"}

\* what follows a backslash inside a JSON string, and what it stands for
\* (\u is not modelled: no text of the model contains it)
JsonEscapes ==
    [c \in {Quote, Backslash, "/", "n", "t", "r"} |->
        CASE c = "n" -> NL
          [] c = "t" -> "\t"
          [] c = "r" -> "\r"
          [] OTHER -> c]

\* the characters a JSON string may hold unescaped
JsonPlain(c) == c \notin {Quote, Backslash, NL, "\t", "\r"}

\* codegen write_string: the quoted, escaped form of a string
RECURSIVE EscapeJson(_)
EscapeJson(chars) ==
    IF chars = <<>> THEN <<>>
    ELSE LET c == Head(chars)
             e == CASE c = Quote -> <<Backslash, Quote>>
                    [] c = Backslash -> <<Backslash, Backslash>>
                    [] c = NL -> <<Backslash, "n">>
                    [] c = "\t" -> <<Backslash, "t">>
                    [] c = "\r" -> <<Backslash, "r">>
                    [] OTHER -> <<c>>
         IN  e \o EscapeJson(Tail(chars))

WriteString(chars) == <<Quote>> \o EscapeJson(chars) \o <<Quote>>

\* JsonValue::dump of a string or a number
Dump(j) == IF j.t = "str" THEN WriteString(j.v) ELSE j.v

RECURSIVE SkipWhitespace(_, _)
SkipWhitespace(text, p) ==
    IF p <= Len(text) /\ text[p] \in JsonWhitespace
    THEN SkipWhitespace(text, p + 1) ELSE p

\* the body of a string, from the character after the opening quote
RECURSIVE ReadString(_, _, _)
ReadString(text, p, acc) ==
    IF p > Len(text) THEN [ok |-> FALSE]
    ELSE IF text[p] = Quote
         THEN [ok |-> TRUE, value |-> JsonString(acc), next |-> p + 1]
    ELSE IF text[p] = Backslash
         THEN IF p + 1 <= Len(text) /\ text[p + 1] \in DOMAIN JsonEscapes
              THEN ReadString(text, p + 2, Append(acc, JsonEscapes[text[p + 1]]))
              ELSE [ok |-> FALSE]
    ELSE IF JsonPlain(text[p])
         THEN ReadString(text, p + 1, Append(acc, text[p]))
    ELSE [ok |-> FALSE]

RECURSIVE DigitsEnd(_, _)
DigitsEnd(text, p) ==
    IF p <= Len(text) /\ text[p] \in Digits THEN DigitsEnd(text, p + 1) ELSE p

\* one JSON value starting at p
ReadValue(text, p) ==
    IF p > Len(text) THEN [ok |-> FALSE]
    ELSE IF text[p] = Quote THEN ReadString(text, p + 1, <<>>)
    ELSE IF text[p] = "0"
         THEN [ok |-> TRUE, value |-> JsonNumber(<<"0">>), next |-> p + 1]
    ELSE IF text[p] \in Digits
         THEN LET e == DigitsEnd(text, p)
              IN  [ok |-> TRUE, value |-> JsonNumber(SubSeq(text, p, e - 1)),
                   next |-> e]
    ELSE [ok |-> FALSE]

\* json::parse: one value, white space around it, nothing else
JsonParse(text) ==
    LET r == ReadValue(text, SkipWhitespace(text, 1))
    IN  IF r.ok /\ SkipWhitespace(text, r.next) > Len(text)
        THEN [ok |-> TRUE, value |-> r.value]
        ELSE [ok |-> FALSE]

----------------------------------------------------------------------------
(* Header names and values (hyper::header) *)

LowerLetters ==
    <<"a", "b", "c", "d", "e", "f", "g", "h", "i", "j", "k", "l", "m", "n",
      "o", "p", "q", "r", "s", "t", "u", "v", "w", "x", "y", "z">>
UpperLetters ==
    <<"A", "B", "C", "D", "E", "F", "G", "H", "I", "J", "K", "L", "M", "N",
      "O", "P", "Q", "R", "S", "T", "U", "V", "W", "X", "Y", "Z">>

Range(f) == {f[x] : x \in DOMAIN f}

ToLower(c) ==
    IF c \in Range(UpperLetters)
    THEN LowerLetters[CHOOSE n \in 1..Len(UpperLetters) : UpperLetters[n] = c]
    ELSE c

\* the characters of an HTTP token (the backquote, also one, is left out:
\* no text of the model holds it)
HeaderNameChars ==
    Range(LowerLetters) \cup Range(UpperLetters) \cup Digits
        \cup {"!", "#", "$", "%", "&", "'", "*", "+", "-", ".", "^", "_", "|", "~"}

\* HeaderName::from_str: a non-empty token, lower-cased
HeaderNameParse(chars) ==
    IF chars # <<>> /\ \A n \in 1..Len(chars) : chars[n] \in HeaderNameChars
    THEN [ok |-> TRUE, value |-> [n \in 1..Len(chars) |-> ToLower(chars[n])]]
    ELSE [ok |-> FALSE]

\* HeaderValue::from_str: no control character but the tab
HeaderValueParse(chars) ==
    IF \A n \in 1..Len(chars) : chars[n] \notin {NL, "\r"}
    THEN [ok |-> TRUE, value |-> chars]
    ELSE [ok |-> FALSE]

----------------------------------------------------------------------------
(* The file system, as file indirection sees it: a function from the paths *)
(* that exist to what they hold.                                           *)

TextFile(chars) == [utf8 |-> TRUE, text |-> chars]
BinaryFile == [utf8 |-> FALSE, text |-> <<>>]

\* File::open then read_to_string
ReadToString(files, path) ==
    IF path \in DOMAIN files /\ files[path].utf8
    THEN [ok |-> TRUE, text |-> files[path].text]
    ELSE [ok |-> FALSE]

----------------------------------------------------------------------------
(* RequestItem::from_str *)

Ok(item, opens) == [ok |-> TRUE, item |-> item, opens |-> opens]
Err(kind, text, opens) == [ok |-> FALSE, err |-> kind, text |-> text, opens |-> opens]

Item(variant, key, value) == [variant |-> variant, key |-> key, value |-> value]

\* the match on the variant, after file indirection
MatchVariant(s, variant, key, value, opens) ==
    CASE variant = <<"=">> -> Ok(Item("Data", key, value), opens)
      [] variant = <<"@">> -> Ok(Item("FormFile", key, value), opens)
      [] variant = <<":">> ->
            LET k == HeaderNameParse(key)
                v == HeaderValueParse(value)
            IN  IF k.ok /\ v.ok THEN Ok(Item("Header", k.value, v.value), opens)
                ELSE Err("ParseError", s, opens)
      [] variant = <<":", "=">> ->
            LET j == JsonParse(value)
            IN  IF j.ok THEN Ok(Item("JsonData", key, j.value), opens)
                ELSE Err("ParseError", s, opens)
      [] variant = <<"=", "=">> -> Ok(Item("SearchParam", key, value), opens)
      [] OTHER -> Err("VariantParseError", variant, opens)

\* the whole of from_str; opens lists the paths given to File::open
from_str(s, files) ==
    LET c == Captures(s)
    IN  IF ~c.matched THEN Err("ParseError", s, <<>>)
        ELSE IF Len(c.sep) > 1 /\ Last(c.sep) = "@"
             THEN IF Len(c.value) = 0
                  THEN Err("MissingFileInputError", c.value, <<>>)
                  ELSE LET f == ReadToString(files, c.value)
                       IN  IF ~f.ok THEN Err("IOError", c.value, <<c.value>>)
                           ELSE MatchVariant(s, SelectSeq(c.sep, LAMBDA ch : ch # "@"),
                                             c.name, f.text, <<c.value>>)
             ELSE MatchVariant(s, c.sep, c.name, c.value, <<>>)

----------------------------------------------------------------------------
(* URIs (hyper::Uri).  An optional part is a sequence of length 0 or 1.    *)

None == <<>>
Some(v) == <<v>>

PathAndQuery(path, query) == [path |-> path, query |-> query]
Parts(scheme, authority, path_and_query) ==
    [scheme |-> scheme, authority |-> authority, path_and_query |-> path_and_query]

\* Uri::from_parts: a scheme needs an authority and a path, an authority
\* together with a path needs a scheme
from_parts(parts) ==
    IF parts.scheme # None
    THEN IF parts.authority = None THEN [ok |-> FALSE, err |-> "AuthorityMissing"]
         ELSE IF parts.path_and_query = None
              THEN [ok |-> FALSE, err |-> "PathAndQueryMissing"]
         ELSE [ok |-> TRUE, uri |-> parts]
    ELSE IF parts.authority # None /\ parts.path_and_query # None
         THEN [ok |-> FALSE, err |-> "SchemeMissing"]
    ELSE [ok |-> TRUE, uri |-> parts]

\* NormalizeUri with a slip: a missing scheme is left missing
NormalizeUriNoScheme(u) ==
    from_parts(IF u.path_and_query = None
               THEN [u EXCEPT !.path_and_query = Some(PathAndQuery("/", None))]
               ELSE u)

\* the block given to Builder::uri: the scheme and the path are defaulted,
\* then the parts are put together again
NormalizeUri(u) ==
    LET withScheme == IF u.scheme = None THEN [u EXCEPT !.scheme = Some("http")] ELSE u
        withPath == IF withScheme.path_and_query = None
                    THEN [withScheme EXCEPT !.path_and_query = Some(PathAndQuery("/", None))]
                    ELSE withScheme
    IN  from_parts(withPath)

\* Uri::path: the path, read as / when it is empty
UriPath(u) ==
    IF u.path_and_query = None THEN ""
    ELSE IF u.path_and_query[1].path = "" THEN "/"
    ELSE u.path_and_query[1].path

UriQuery(u) == IF u.path_and_query = None THEN None ELSE u.path_and_query[1].query

----------------------------------------------------------------------------
(* Request assembly (main) *)

HeaderAccept == <<"a", "c", "c", "e", "p", "t">>
HeaderUserAgent ==
    <<"u", "s", "e", "r", "-", "a", "g", "e", "n", "t">>
HeaderContentType ==
    <<"c", "o", "n", "t", "e", "n", "t", "-", "t", "y", "p", "e">>
HeaderContentLength ==
    <<"c", "o", "n", "t", "e", "n", "t", "-", "l", "e", "n", "g", "t", "h">>

\* mime::STAR_STAR
StarStar == <<"*", "/", "*">>
\* CARGO_PKG_NAME / CARGO_PKG_VERSION; the version is one symbol
UserAgent == <<"r", "u", "r", "l", "/">> \o <<"CARGO_PKG_VERSION">>
\* mime::APPLICATION_JSON
ApplicationJson ==
    <<"a", "p", "p", "l", "i", "c", "a", "t", "i", "o", "n", "/", "j", "s",
      "o", "n">>
\* mime::APPLICATION_WWW_FORM_URLENCODED_UTF_8
ApplicationWwwFormUrlencodedUtf8 ==
    <<"a", "p", "p", "l", "i", "c", "a", "t", "i", "o", "n", "/", "x", "-",
      "w", "w", "w", "-", "f", "o", "r", "m", "-", "u", "r", "l", "e", "n",
      "c", "o", "d", "e", "d", ";", " ", "c", "h", "a", "r", "s", "e", "t",
      "=", "u", "t", "f", "-", "8">>

\* Builder::header appends: a name may carry several values
AddHeader(r, name, value) == [r EXCEPT !.headers = Append(@, <<name, value>>)]

\* usize as decimal text
RECURSIVE ToDigits(_)
ToDigits(n) ==
    IF n < 10 THEN <<CHOOSE d \in Digits : d = ToString(n)>>
    ELSE Append(ToDigits(n \div 10), CHOOSE d \in Digits : d = ToString(n % 10))

IsBodyItem(item) == item.variant \in {"Data", "JsonData"}

\* the loop over the Header items
RECURSIVE ApplyHeaders(_, _)
ApplyHeaders(r, items) ==
    IF items = <<>> THEN r
    ELSE LET item == Head(items)
         IN  ApplyHeaders(IF item.variant = "Header"
                          THEN AddHeader(r, item.key, item.value) ELSE r,
                          Tail(items))

\* ObjectSet with a slip: a present key keeps the value it has
ObjectSetKeepFirst(object, key, value) ==
    IF \E n \in 1..Len(object) : object[n][1] = key
    THEN object
    ELSE Append(object, <<key, value>>)

\* body[key] = value on a json object: a present key keeps its place and
\* takes the new value, a new key goes last
ObjectSet(object, key, value) ==
    IF \E n \in 1..Len(object) : object[n][1] = key
    THEN [n \in 1..Len(object) |->
            IF object[n][1] = key THEN <<key, value>> ELSE object[n]]
    ELSE Append(object, <<key, value>>)

\* FillObject with a slip: a SearchParam is taken for a body field
RECURSIVE FillObjectWithSearchParams(_, _)
FillObjectWithSearchParams(object, items) ==
    IF items = <<>> THEN [ok |-> TRUE, object |-> object]
    ELSE LET item == Head(items)
         IN  IF item.variant \in {"Data", "SearchParam"}
             THEN FillObjectWithSearchParams(
                      ObjectSet(object, item.key, JsonString(item.value)), Tail(items))
             ELSE IF item.variant = "JsonData"
             THEN FillObjectWithSearchParams(
                      ObjectSet(object, item.key, item.value), Tail(items))
             ELSE FillObjectWithSearchParams(object, Tail(items))

\* the loop that fills the json object; a Data value goes through
\* json::stringify and json::parse
RECURSIVE FillObject(_, _)
FillObject(object, items) ==
    IF items = <<>> THEN [ok |-> TRUE, object |-> object]
    ELSE LET item == Head(items)
         IN  IF item.variant = "Data"
             THEN LET j == JsonParse(WriteString(item.value))
                  IN  IF j.ok
                      THEN FillObject(ObjectSet(object, item.key, j.value), Tail(items))
                      ELSE [ok |-> FALSE]
             ELSE IF item.variant = "JsonData"
             THEN FillObject(ObjectSet(object, item.key, item.value), Tail(items))
             ELSE FillObject(object, Tail(items))

\* JsonValue::dump of an object
RECURSIVE DumpFields(_)
DumpFields(object) ==
    IF object = <<>> THEN <<>>
    ELSE WriteString(object[1][1]) \o <<":">> \o Dump(object[1][2])
            \o (IF Len(object) > 1 THEN <<",">> ELSE <<>>)
            \o DumpFields(Tail(object))

DumpObject(object) == <<"{">> \o DumpFields(object) \o <<"}">>

\* urlencoding::encode
Unreserved ==
    Range(LowerLetters) \cup Range(UpperLetters) \cup Digits \cup {"-", "_", ".", "~"}

PercentCodes ==
    [c \in {"=", ":", "@", Backslash, NL, Quote, " ", "/", "\t", "\r"} |->
        CASE c = "=" -> <<"%", "3", "D">>
          [] c = ":" -> <<"%", "3", "A">>
          [] c = "@" -> <<"%", "4", "0">>
          [] c = Backslash -> <<"%", "5", "C">>
          [] c = NL -> <<"%", "0", "A">>
          [] c = Quote -> <<"%", "2", "2">>
          [] c = " " -> <<"%", "2", "0">>
          [] c = "/" -> <<"%", "2", "F">>
          [] c = "\t" -> <<"%", "0", "9">>
          [] c = "\r" -> <<"%", "0", "D">>]

RECURSIVE encode(_)
encode(chars) ==
    IF chars = <<>> THEN <<>>
    ELSE (IF Head(chars) \in Unreserved THEN <<Head(chars)>>
          ELSE PercentCodes[Head(chars)]) \o encode(Tail(chars))

\* FormBody with a slip: the & is pushed before every pair
RECURSIVE FormBodyAlwaysAmp(_, _)
FormBodyAlwaysAmp(acc, items) ==
    IF items = <<>> THEN acc
    ELSE LET item == Head(items)
         IN  IF item.variant = "Data"
             THEN FormBodyAlwaysAmp(acc \o <<"&">> \o encode(item.key) \o <<"=">>
                                        \o encode(item.value), Tail(items))
             ELSE IF item.variant = "JsonData"
             THEN FormBodyAlwaysAmp(acc \o <<"&">> \o encode(item.key) \o <<"=">>
                                        \o encode(Dump(item.value)), Tail(items))
             ELSE FormBodyAlwaysAmp(acc, Tail(items))

\* the loop that builds the form body
RECURSIVE FormBody(_, _)
FormBody(acc, items) ==
    IF items = <<>> THEN acc
    ELSE LET item == Head(items)
             amp == IF acc # <<>> THEN <<"&">> ELSE <<>>
         IN  IF item.variant = "Data"
             THEN FormBody(acc \o amp \o encode(item.key) \o <<"=">>
                               \o encode(item.value), Tail(items))
             ELSE IF item.variant = "JsonData"
             THEN FormBody(acc \o amp \o encode(item.key) \o <<"=">>
                               \o encode(Dump(item.value)), Tail(items))
             ELSE FormBody(acc, Tail(items))

\* the content headers both modes add to a request with a body
WithContent(r, contentType, text) ==
    AddHeader(AddHeader(r, HeaderContentType, contentType),
              HeaderContentLength, ToDigits(Len(text)))

\* the Json arm of the match on opt.mode
JsonArm(r, items) ==
    IF Len(SelectSeq(items, IsBodyItem)) > 0
    THEN LET filled == FillObject(<<>>, items)
         IN  IF ~filled.ok THEN [ok |-> FALSE]
             ELSE LET text == DumpObject(filled.object)
                  IN  [ok |-> TRUE, req |-> WithContent(r, ApplicationJson, text),
                       body |-> text]
    ELSE [ok |-> TRUE, req |-> r, body |-> <<>>]

\* FormArm with a slip: the content headers are added to an empty body too
FormArmAlwaysContent(r, items) ==
    [ok |-> TRUE,
     req |-> WithContent(r, ApplicationWwwFormUrlencodedUtf8, FormBody(<<>>, items)),
     body |-> FormBody(<<>>, items)]

\* the Form arm of the match on opt.mode
FormArm(r, items) ==
    LET text == FormBody(<<>>, items)
    IN  [ok |-> TRUE,
         req |-> IF Len(text) > 0
                 THEN WithContent(r, ApplicationWwwFormUrlencodedUtf8, text)
                 ELSE r,
         body |-> text]

\* let body = match opt.mode { ... }
AssembleBody(m, r, items) ==
    IF m = "Form" THEN FormArm(r, items) ELSE JsonArm(r, items)

\* Request::builder().method(..).uri(..).header(accept).header(user-agent)
NewRequest(m, u) ==
    LET n == NormalizeUri(u)
    IN  IF ~n.ok THEN [ok |-> FALSE, err |-> n.err]
        ELSE [ok |-> TRUE,
              req |-> [method |-> m, uri |-> n.uri,
                       headers |-> << <<HeaderAccept, StarStar>>,
                                      <<HeaderUserAgent, UserAgent>> >>]]

\* ParseArgs with a slip: a token that fails to parse is skipped
RECURSIVE ParseArgsSkipFailed(_, _, _, _)
ParseArgsSkipFailed(tokens, files, items, opens) ==
    IF tokens = <<>> THEN [ok |-> TRUE, items |-> items, opens |-> opens]
    ELSE LET r == from_str(Head(tokens), files)
         IN  ParseArgsSkipFailed(Tail(tokens), files,
                                 IF r.ok THEN Append(items, r.item) ELSE items,
                                 opens \o r.opens)

\* Opt::from_args on the REQUEST_ITEM arguments: the tokens are parsed in
\* order and the first failure ends the run
RECURSIVE ParseArgs(_, _, _, _)
ParseArgs(tokens, files, items, opens) ==
    IF tokens = <<>> THEN [ok |-> TRUE, items |-> items, opens |-> opens]
    ELSE LET r == from_str(Head(tokens), files)
         IN  IF r.ok
             THEN ParseArgs(Tail(tokens), files, Append(items, r.item), opens \o r.opens)
             ELSE [ok |-> FALSE, err |-> r.err, opens |-> opens \o r.opens]

----------------------------------------------------------------------------
(* The inputs of a run *)

Methods == {"GET", "POST"}

\* opt.mode: None, Some(Mode::Json) or Some(Mode::Form)
Modes == {"None", "Json", "Form"}

\* the shapes of URI the URI parser yields: absolute, absolute with an empty
\* path, an authority alone, a path alone
UriAbsolute == Parts(Some("https"), Some("h"), Some(PathAndQuery("/p", Some("q"))))
UriNoPath == Parts(Some("http"), Some("h"), Some(PathAndQuery("", None)))
UriAuthority == Parts(None, Some("localhost:8080"), None)
UriPathOnly == Parts(None, None, Some(PathAndQuery("/foo", None)))
Uris == {UriAbsolute, UriNoPath, UriAuthority, UriPathOnly}

\* the files: a one-line text file, a file that is not UTF-8, a text file
\* that is not JSON, an empty file; every other path does not exist
SampleFiles ==
    (<<"a">> :> TextFile(<<"1", NL>>)) @@ (<<"1">> :> BinaryFile)
        @@ (<<"@">> :> TextFile(<<"a">>)) @@ (<<":">> :> TextFile(<<>>))
FileSystems == {SampleFiles}

\* every token of at most MaxTokenLen characters
ShortTokens == UNION {[1..n -> Alphabet] : n \in 0..MaxTokenLen}

\* the tokens of the runs with several items
RunTokens ==
    {<<"a", "=", "1">>, <<"a", ":", "=", "1">>, <<"1", "=", "@", "a">>,
     <<"a", "c", "c", "e", "p", "t", ":", "a">>,
     <<"a", "=", "=", "1">>, <<"a", "@", "1">>, <<"a", ":", "=", "@", "1">>}

ItemLists == UNION {[1..n -> RunTokens] : n \in 0..MaxItems}

NoFailure == [stage |-> "none", err |-> "none"]
NoRequest == [method |-> "", uri |-> Parts(None, None, None), headers |-> <<>>]

InitCommon ==
    /\ pc = "from_args"
    /\ mode \in Modes
    /\ fs \in FileSystems
    /\ opened = <<>>
    /\ request_items = <<>>
    /\ req = NoRequest
    /\ body = <<>>
    /\ built = FALSE
    /\ netCalls = 0
    /\ failure = NoFailure

\* a run on a list of items
Init ==
    /\ InitCommon
    /\ method \in Methods
    /\ uri \in Uris
    /\ args \in ItemLists

\* a run on one token, any text of the alphabet
InitItem ==
    /\ InitCommon
    /\ method = "POST"
    /\ uri = UriAbsolute
    /\ args \in {<<t>> : t \in ShortTokens}

----------------------------------------------------------------------------
(* The steps of main *)

Fail(stage, err) ==
    /\ pc' = "failed"
    /\ failure' = [stage |-> stage, err |-> err]

\* Opt::from_args
FromArgs ==
    /\ pc = "from_args"
    /\ \E r \in {ParseArgs(args, fs, <<>>, <<>>)} :
           /\ opened' = r.opens
           /\ IF r.ok
              THEN /\ request_items' = r.items
                   /\ pc' = "build_uri"
                   /\ UNCHANGED failure
              ELSE /\ Fail("from_args", r.err)
                   /\ UNCHANGED request_items
    /\ UNCHANGED <<method, uri, mode, args, fs, req, body, built, netCalls>>

\* the request builder with the method, the URI and the default headers
BuildUri ==
    /\ pc = "build_uri"
    /\ \E r \in {NewRequest(method, uri)} :
           IF r.ok
           THEN /\ req' = r.req
                /\ pc' = "build_headers"
                /\ UNCHANGED failure
           ELSE /\ Fail("build_uri", r.err)
                /\ UNCHANGED req
    /\ UNCHANGED <<method, uri, mode, args, fs, opened, request_items, body, built,
                   netCalls>>

\* build request headers
BuildHeaders ==
    /\ pc = "build_headers"
    /\ req' = ApplyHeaders(req, request_items)
    /\ pc' = "build_body"
    /\ UNCHANGED <<method, uri, mode, args, fs, opened, request_items, body, built,
                   netCalls, failure>>

\* build request body
BuildBody ==
    /\ pc = "build_body"
    /\ \E r \in {AssembleBody(mode, req, request_items)} :
           IF r.ok
           THEN /\ req' = r.req
                /\ body' = r.body
                /\ pc' = "build_request"
                /\ UNCHANGED failure
           ELSE /\ Fail("build_body", "JsonError")
                /\ UNCHANGED <<req, body>>
    /\ UNCHANGED <<method, uri, mode, args, fs, opened, request_items, built,
                   netCalls>>

\* req.body(Body::from(body.clone()))
BuildRequest ==
    /\ pc = "build_request"
    /\ built' = TRUE
    /\ pc' = "print_request"
    /\ UNCHANGED <<method, uri, mode, args, fs, opened, request_items, req, body,
                   netCalls, failure>>

\* print request, its headers and its body
PrintRequest ==
    /\ pc = "print_request"
    /\ pc' = "make_request"
    /\ UNCHANGED <<method, uri, mode, args, fs, opened, request_items, req, body,
                   built, netCalls, failure>>

\* client.request(req).await: the one network exchange, which may fail
MakeRequest ==
    /\ pc = "make_request"
    /\ netCalls' = netCalls + 1
    /\ \E ok \in BOOLEAN :
          IF ok THEN pc' = "print_response" /\ UNCHANGED failure
          ELSE Fail("make_request", "NetworkError")
    /\ UNCHANGED <<method, uri, mode, args, fs, opened, request_items, req, body,
                   built>>

\* print the response: reading or decoding it may fail
PrintResponse ==
    /\ pc = "print_response"
    /\ \E ok \in BOOLEAN :
          IF ok THEN pc' = "done" /\ UNCHANGED failure
          ELSE Fail("print_response", "ResponseError")
    /\ UNCHANGED <<method, uri, mode, args, fs, opened, request_items, req, body,
                   built, netCalls>>

Next ==
    \/ FromArgs
    \/ BuildUri
    \/ BuildHeaders
    \/ BuildBody
    \/ BuildRequest
    \/ PrintRequest
    \/ MakeRequest
    \/ PrintResponse

Spec == Init /\ [][Next]_vars

SpecItem == InitItem /\ [][Next]_vars

----------------------------------------------------------------------------
(* The item grammar as the specification words it: the operator table, the *)
(* split at the leftmost unescaped operator, the longest operator there.   *)

TableOperators == {<<"=", "=">>, <<":", "=">>, <<":">>, <<"=">>, <<"@">>}
IndirectOperators == {<<"=", "@">>, <<":", "=", "@">>}
OperatorChars == {"=", ":", "@"}

OperatorsAt(s, p) == {op \in TableOperators \cup IndirectOperators : LitAt(s, p, op)}

LongestAt(s, p) ==
    CHOOSE op \in OperatorsAt(s, p) : \A o \in OperatorsAt(s, p) : Len(o) <= Len(op)

\* where an operator starts that has text before it and no backslash
\* right before it
SplitPoints(s) ==
    {p \in 2..Len(s) : OperatorsAt(s, p) # {} /\ s[p - 1] # Backslash}

\* the token of a one-token run, and what its parse came to
TheToken == args[1]
Parsed == pc # "from_args"
ParsedOk == Parsed /\ failure.stage # "from_args"
ParseFailedWith(err) == Parsed /\ failure.stage = "from_args" /\ failure.err = err
TheItem == request_items[1]

\* the result the operator table gives for operator op, key and value
TableResult(op, key, value) ==
    CASE op = <<"=", "=">> ->
            /\ ParsedOk
            /\ TheItem.variant = "SearchParam"
            /\ TheItem.key = key
            /\ TheItem.value = value
      [] op = <<"=">> ->
            /\ ParsedOk
            /\ TheItem.variant = "Data"
            /\ TheItem.key = key
            /\ TheItem.value = value
      [] op = <<"@">> ->
            /\ ParsedOk
            /\ TheItem.variant = "FormFile"
            /\ TheItem.key = key
            /\ TheItem.value = value
      [] op = <<":", "=">> ->
            IF JsonParse(value).ok
            THEN /\ ParsedOk
                 /\ TheItem.variant = "JsonData"
                 /\ TheItem.key = key
                 /\ TheItem.value = JsonParse(value).value
            ELSE ParseFailedWith("ParseError")
      [] op = <<":">> ->
            IF HeaderNameParse(key).ok /\ HeaderValueParse(value).ok
            THEN /\ ParsedOk
                 /\ TheItem.variant = "Header"
                 /\ TheItem.key = HeaderNameParse(key).value
                 /\ TheItem.value = HeaderValueParse(value).value
            ELSE ParseFailedWith("ParseError")

\* C1: every token is split at the leftmost operator that has text before
\* it and no backslash right before it; the operator is the longest one
\* there and selects the variant; the key is all the text before it, the
\* value all the text after it, transformed as the table says.  A token with
\* no such operator is a ParseError.
C1_SplitAtLeftmostOperator ==
    Parsed =>
        IF SplitPoints(TheToken) = {} THEN ParseFailedWith("ParseError")
        ELSE LET p == Min(SplitPoints(TheToken))
                 op == LongestAt(TheToken, p)
             IN  op \in TableOperators =>
                    TableResult(op, SubSeq(TheToken, 1, p - 1),
                                From(TheToken, p + Len(op)))

\* the key with every backslash that escapes an operator character removed
RECURSIVE Unescape(_)
Unescape(chars) ==
    IF chars = <<>> THEN <<>>
    ELSE IF Len(chars) >= 2 /\ chars[1] = Backslash /\ chars[2] \in OperatorChars
         THEN <<chars[2]>> \o Unescape(From(chars, 3))
    ELSE <<chars[1]>> \o Unescape(Tail(chars))

\* C2: when an operator character is escaped by a backslash the token is
\* split at the next unescaped operator, and the key holds the escaped
\* character without its backslash (a\=b=c has key a=b).  Stated for the
\* one-line tokens that parse to a variant with a text key.
C2_EscapedOperatorInKey ==
    (/\ ParsedOk
     /\ \A n \in 1..Len(TheToken) : TheToken[n] # NL
     /\ TheItem.variant # "Header")
        => LET p == Min(SplitPoints(TheToken))
           IN  TheItem.key = Unescape(SubSeq(TheToken, 1, p - 1))

\* C3: a token whose operator is =@ or :=@ is a MissingFileInputError, with
\* no file opened, when no text follows the operator; an IOError when the
\* file named by that text cannot be read as UTF-8 text; and else the result
\* the table gives for = or := with the file's contents as value.
C3_FileIndirection ==
    (Parsed /\ SplitPoints(TheToken) # {}) =>
        LET p == Min(SplitPoints(TheToken))
            op == LongestAt(TheToken, p)
            path == From(TheToken, p + Len(op))
        IN  op \in IndirectOperators =>
               IF path = <<>>
               THEN ParseFailedWith("MissingFileInputError") /\ opened = <<>>
               ELSE IF ~ReadToString(fs, path).ok THEN ParseFailedWith("IOError")
               ELSE TableResult(SubSeq(op, 1, Len(op) - 1),
                                SubSeq(TheToken, 1, p - 1),
                                ReadToString(fs, path).text)

----------------------------------------------------------------------------
(* The assembled request *)

\* the request is assembled once the body step has run
Assembled == pc \in {"build_request", "print_request", "make_request",
                     "print_response", "done"}
                \/ (pc = "failed" /\ failure.stage \in {"make_request", "print_response"})

JsonMode == mode \in {"None", "Json"}
FormMode == mode = "Form"

BodyItems == SelectSeq(request_items, IsBodyItem)
IsHeaderItem(item) == item.variant = "Header"
HeaderItems == SelectSeq(request_items, IsHeaderItem)

\* the JSON value a body item stands for
AsJson(item) == IF item.variant = "Data" THEN JsonString(item.value) ELSE item.value

\* the last body item with key k
LastWith(k) ==
    BodyItems[CHOOSE n \in 1..Len(BodyItems) :
                /\ BodyItems[n].key = k
                /\ \A m \in (n + 1)..Len(BodyItems) : BodyItems[m].key # k]

BodyKeys == {BodyItems[n].key : n \in 1..Len(BodyItems)}

\* the orders in which each distinct body key comes once
KeyOrders ==
    {o \in [1..Cardinality(BodyKeys) -> BodyKeys] :
        \A i, j \in 1..Cardinality(BodyKeys) : o[i] = o[j] => i = j}

\* C4: in Json mode (explicit or default) with at least one Data or
\* JsonData item, the body is the compact text of one JSON object with
\* exactly one field per distinct key of those items, each field holding the
\* value of the last item with that key (a Data value as a JSON string, a
\* JsonData value as parsed).
C4_JsonBodyLastWriteWins ==
    (Assembled /\ JsonMode /\ Len(BodyItems) > 0) =>
        \E o \in KeyOrders :
            body = DumpObject([n \in 1..Len(o) |-> <<o[n], AsJson(LastWith(o[n]))>>])

C4_Witness ==
    /\ Assembled /\ JsonMode
    /\ Len(BodyItems) = 3
    /\ BodyItems[1].variant = "Data" /\ BodyItems[1].key = <<"a">>
    /\ BodyItems[2].key = <<"1">>
    /\ BodyItems[3].variant = "JsonData" /\ BodyItems[3].key = <<"a">>
    /\ body =
        <<"{", Quote, "a", Quote, ":", "1", ",", Quote, "1", Quote, ":",
          Quote, "1", Backslash, "n", Quote, "}">>

\* the text a body item contributes to a form body
PairOf(item) ==
    encode(item.key) \o <<"=">>
        \o encode(IF item.variant = "Data" THEN item.value ELSE Dump(item.value))

RECURSIVE JoinAmp(_)
JoinAmp(pairs) ==
    IF pairs = <<>> THEN <<>>
    ELSE IF Len(pairs) = 1 THEN pairs[1]
    ELSE pairs[1] \o <<"&">> \o JoinAmp(Tail(pairs))

\* C5: in Form mode the body is, in input order, one pair
\* encode(key)=encode(value) per Data or JsonData item, joined by single &
\* with none at either end, items with the same key each keeping their
\* pair; it is empty exactly when there is no such item.
C5_FormBodyPairs ==
    (Assembled /\ FormMode) =>
        /\ body = JoinAmp([n \in 1..Len(BodyItems) |-> PairOf(BodyItems[n])])
        /\ (body = <<>>) <=> (Len(BodyItems) = 0)

C5_Witness ==
    /\ Assembled /\ FormMode
    /\ Len(BodyItems) = 3
    /\ BodyItems[1].key = BodyItems[3].key
    /\ body =
        <<"a", "=", "1", "&", "1", "=", "1", "%", "0", "A", "&", "a", "=",
          "1">>

\* the number a decimal text denotes
RECURSIVE DecimalValue(_)
DecimalValue(digits) ==
    IF digits = <<>> THEN 0
    ELSE 10 * DecimalValue(SubSeq(digits, 1, Len(digits) - 1))
            + (CHOOSE n \in 0..9 : ToString(n) = Last(digits))

\* the headers the body step added: those after the two defaults and the
\* Header items
ContentHeaders == SubSeq(req.headers, 3 + Len(HeaderItems), Len(req.headers))

ContentHeadersAre(contentType) ==
    /\ Len(ContentHeaders) = 2
    /\ ContentHeaders[1] = <<HeaderContentType, contentType>>
    /\ ContentHeaders[2][1] = HeaderContentLength
    /\ DecimalValue(ContentHeaders[2][2]) = Len(body)
    /\ body # <<>>

FormUrlencoded ==
    <<"a", "p", "p", "l", "i", "c", "a", "t", "i", "o", "n", "/", "x", "-",
      "w", "w", "w", "-", "f", "o", "r", "m", "-", "u", "r", "l", "e", "n",
      "c", "o", "d", "e", "d">>

HasHeader(name, value) == \E n \in 1..Len(req.headers) : req.headers[n] = <<name, value>>
Names(name) == \E n \in 1..Len(HeaderItems) : HeaderItems[n].key = name

\* C7: the assembled request always carries an accept and a user-agent
\* header; they are the defaults when no Header item names them, and a
\* Header item named accept (or user-agent) overrides the default: the
\* request carries the item's value and no longer the default one.
C7_DefaultsOverridden ==
    Assembled =>
        /\ IF Names(HeaderAccept)
           THEN /\ \A n \in 1..Len(HeaderItems) :
                      HeaderItems[n].key = HeaderAccept
                          => HasHeader(HeaderAccept, HeaderItems[n].value)
                /\ (\A n \in 1..Len(HeaderItems) :
                      HeaderItems[n].key = HeaderAccept => HeaderItems[n].value # StarStar)
                      => ~HasHeader(HeaderAccept, StarStar)
           ELSE HasHeader(HeaderAccept, StarStar)
        /\ IF Names(HeaderUserAgent)
           THEN (\A n \in 1..Len(HeaderItems) :
                      HeaderItems[n].key = HeaderUserAgent
                          => HeaderItems[n].value # UserAgent)
                      => ~HasHeader(HeaderUserAgent, UserAgent)
           ELSE HasHeader(HeaderUserAgent, UserAgent)

\* the URI step has run
UriStepDone == pc \notin {"from_args", "build_uri"} /\ failure.stage # "from_args"
UriStepFailed == pc = "failed" /\ failure.stage = "build_uri"

\* the assembled URI has the scheme and the path of the input, http and /
\* standing in for a missing one, and its authority and query
NormalizedFromInput ==
    /\ ~UriStepFailed
    /\ req.uri.scheme = (IF uri.scheme = None THEN Some("http") ELSE uri.scheme)
    /\ UriPath(req.uri) = (IF uri.path_and_query = None THEN "/" ELSE UriPath(uri))
    /\ req.uri.authority = uri.authority
    /\ UriQuery(req.uri) = UriQuery(uri)

\* C8, as claimed: every accepted URI, a path-only one and an
\* authority-only one included, is assembled into a URI with the input's
\* scheme (http when none), path (/ when none), authority and query.
C8_UriNormalizedAsClaimed == UriStepDone => NormalizedFromInput

\* C8, amended: that holds of every accepted URI that has an authority; a
\* URI with no authority (a path-only one) makes the URI step fail, and the
\* run ends there with no header or body assembled and no request built.
C8_UriNormalized ==
    UriStepDone =>
        IF uri.authority # None THEN NormalizedFromInput
        ELSE /\ UriStepFailed
             /\ failure.err = "AuthorityMissing"
             /\ req = NoRequest /\ body = <<>> /\ ~built /\ netCalls = 0

C8_Witness ==
    /\ UriStepDone
    /\ uri = UriAuthority
    /\ req.uri = Parts(Some("http"), Some("localhost:8080"), Some(PathAndQuery("/", None)))

\* C9: the network exchange is started at most once, and only after every
\* token has parsed (file indirection included) and the headers and the body
\* are assembled and the request built; a run in which a token fails to
\* parse, or the URI or the body step fails, ends with no exchange started
\* and no request built from the tokens that did parse; a failed exchange is
\* not tried again.
C9_OneExchangeAfterAssembly ==
    /\ netCalls <= 1
    /\ netCalls = 1 =>
          /\ Len(request_items) = Len(args)
          /\ Assembled /\ built
          /\ pc \in {"print_response", "done", "failed"}
          /\ ~ENABLED MakeRequest
    /\ pc = "build_uri" =>
          \A n \in 1..Len(args) :
              from_str(args[n], fs).ok /\ request_items[n] = from_str(args[n], fs).item
    /\ (pc # "from_args" /\ Len(request_items) # Len(args)) =>
          /\ pc = "failed" /\ failure.stage = "from_args"
          /\ \E n \in 1..Len(args) : ~from_str(args[n], fs).ok
    /\ failure.stage \in {"from_args", "build_uri", "build_body"} =>
          /\ pc = "failed"
          /\ netCalls = 0
          /\ ~built
          /\ body = <<>>
          /\ failure.stage = "from_args" => (request_items = <<>> /\ req = NoRequest)

C9_Witness ==
    /\ pc = "failed" /\ failure.stage = "make_request"
    /\ netCalls = 1
    /\ Len(request_items) = 3
    /\ opened # <<>>

\* the items that are neither a FormFile nor a SearchParam
IsKept(item) == item.variant \notin {"FormFile", "SearchParam"}
KeptItems == SelectSeq(request_items, IsKept)

\* the tokens the grammar makes a FormFile or a SearchParam
IsInertToken(token) == Captures(token).matched /\ Captures(token).sep \in {<<"@">>, <<"=", "=">>}

\* C10: the outgoing request (method, URI, headers, body) is the one
\* assembled from the same list without its FormFile and SearchParam items,
\* and such an item raises no error: a run that fails does not fail on a
\* token of these two variants, nor in the body step.
C10_InertVariants ==
    /\ pc = "make_request" =>
          LET base == NewRequest(method, uri)
              out == AssembleBody(mode, ApplyHeaders(base.req, KeptItems), KeptItems)
          IN  /\ base.ok /\ out.ok
              /\ req = out.req
              /\ body = out.body
    /\ failure.stage = "from_args" =>
          \A n \in 1..Len(args) : IsInertToken(args[n]) => from_str(args[n], fs).ok
    /\ failure.stage # "build_body"

C10_Witness ==
    /\ pc = "make_request"
    /\ Len(request_items) = 3
    /\ Len(BodyItems) = 1
    /\ \E n \in 1..3 : request_items[n].variant = "FormFile"
    /\ \E n \in 1..3 : request_items[n].variant = "SearchParam"
    /\ body # <<>>

====
